---- MODULE Spec2Model ----
(***************************************************************************)
(* Model of sync_weather.py: the Mertani rainfall client                   *)
(* (MertaniRainfallAPI), its two caches and its duplicate ledger, the      *)
(* thread-pool fan-out of fetch_all_rainfall_data_parallel, the Supabase   *)
(* transform/insert (SupabaseSync) and main().                             *)
(*                                                                         *)
(* Time is the wall clock in whole seconds (time.time(), datetime.now()).  *)
(* Python's None is NULL where the value is otherwise a string and NONE     *)
(* where it is otherwise a dict or a list; an optional number is <<>> for  *)
(* None and <<n>> for n.                                                   *)
(***************************************************************************)
EXTENDS Integers, Sequences, FiniteSets, TLC

NULL == "null"
NONE == <<>>

(***************************************************************************)
(* Program constants (sync_weather.py lines 22-26).                        *)
(***************************************************************************)
CACHE_DURATION_SEC == 300
DUPLICATE_SKIP_SEC == 60

\* MAX_CACHE_ENTRIES is 500 and SUPABASE_BATCH_SIZE is 1000 in the source;
\* the model runs them at a size where a full cache and a second insert
\* batch are reached.
MAX_CACHE_ENTRIES == 2
SUPABASE_BATCH_SIZE == 2

\* timedelta(days=1) in seconds.
DAY_SEC == 86400

(***************************************************************************)
(* Bounds of the model.                                                    *)
(***************************************************************************)
MaxTime == 300
\* Calls a caller makes in one behaviour of SpecApi, SpecCache, SpecDedup.
MaxCalls == 4
MaxCacheCalls == 5
MaxDedupCalls == 4
\* Logins and batches in one behaviour of SpecBatch.
MaxBatchCalls == 3
\* Times the clock advances while one batch is running.
MaxBatchTicks == 1
\* Calls the persisting caller makes.
MaxSyncCalls == 3
\* Calls the single-threaded caller makes in SpecApiShort.
MaxShortCalls == 3

\* The clock advances by one of these amounts between steps.
TickSteps == {50, 250}

(***************************************************************************)
(* The remote telemetry API.                                               *)
(***************************************************************************)
SensorIds == {"s1", "s2"}

\* Datetimes at which every sensor has a reading on the remote side.
ReadingTimes == {0, 45}

\* A window is <<start, end>>.
BatchWindow(t) == <<t - DAY_SEC, t>>

\* Windows a caller passes to get_rainfall_data / fetch_single_sensor_data
\* directly: the window of a batch started at 0, and one ending in the future.
Windows == {BatchWindow(0), <<0, DAY_SEC>>}

RECURSIVE SortedSeq(_)
SortedSeq(S) ==
    IF S = {} THEN <<>>
    ELSE LET m == CHOOSE x \in S : \A y \in S : x <= y
         IN <<m>> \o SortedSeq(S \ {m})

\* The body GET /sensors/records answers at time t when it reports OK: the
\* readings of the sensor inside the window that exist by then.
RemoteRecords(sid, w, t) ==
    [status |-> "OK",
     data |-> << [sensor_master |-> [sensor_name |-> sid, sensor_unit |-> "mm"],
                  sensor_records |->
                      [i \in 1..Len(SortedSeq({r \in ReadingTimes :
                                                 w[1] <= r /\ r <= w[2] /\ r <= t}))
                         |-> [datetime |-> SortedSeq({r \in ReadingTimes :
                                                 w[1] <= r /\ r <= w[2] /\ r <= t})[i],
                              value_calibration |-> "0.5",
                              value_raw |-> "abc"]]] >>]

\* Outcome of one HTTP exchange: status OK, or anything else (a non-OK
\* status, a transport error or an undecodable body all raise).
Responses == {"OK", "ERR"}

\* What POST /users/login answers with status OK: data.accessToken and
\* data.user.company_id, either of which the body may lack (.get gives None).
LoginBodies ==
    { [accessToken |-> "tok", company_id |-> "c1"],
      [accessToken |-> NULL,  company_id |-> NULL] }

\* Python truthiness of a string or None.
Falsy(v) == v = NULL \/ v = ""

(***************************************************************************)
(* MertaniRainfallAPI.__init__                                             *)
(***************************************************************************)
NewApi ==
    [access_token |-> NULL,
     company_id |-> NULL,
     authorization |-> "unset",
     sensors_cache |-> NONE,
     cache_timestamp |-> NONE,
     last_processed_cache |-> <<>>,
     data_cache |-> <<>>]

\* cache_key = f"{sensor_id}_{start_date}_{end_date}"
CacheKey(sid, w) == <<sid, w[1], w[2]>>

(***************************************************************************)
(* _data_cache: a dict, kept as the sequence of its entries in insertion   *)
(* order (the order min() and items() walk it in).                         *)
(***************************************************************************)
CacheHas(c, k) == \E i \in 1..Len(c) : c[i].key = k

CacheGet(c, k) == c[CHOOSE i \in 1..Len(c) : c[i].key = k]

\* c[k] = e: an existing key keeps its place, a new one goes last.
CachePut(c, k, d, ts) ==
    IF CacheHas(c, k)
    THEN [i \in 1..Len(c) |->
            IF c[i].key = k THEN [key |-> k, data |-> d, timestamp |-> ts] ELSE c[i]]
    ELSE Append(c, [key |-> k, data |-> d, timestamp |-> ts])

\* del c[k]
CacheDel(c, k) == SelectSeq(c, LAMBDA e : e.key # k)

\* min(c.keys(), key=lambda k: c[k].get('timestamp', 0)): the first key, in
\* iteration order, among those of the smallest timestamp.
OldestKey(c) ==
    LET i == CHOOSE i \in 1..Len(c) :
                 /\ \A j \in 1..Len(c) : c[i].timestamp <= c[j].timestamp
                 /\ \A j \in 1..(i - 1) : c[j].timestamp > c[i].timestamp
    IN c[i].key

\* _last_processed_cache: a dict from cache key to the time it was stamped.
LedgerPut(l, k, ts) == [x \in DOMAIN l \cup {k} |-> IF x = k THEN ts ELSE l[x]]

(***************************************************************************)
(* A call in progress: one invocation of get_rainfall_data, or of          *)
(* fetch_single_sensor_data (which calls get_rainfall_data), by the main   *)
(* thread or by a pool worker. pc is the place in the code; ret, success,  *)
(* err and raised are the outcome once pc = "done"; net counts the HTTP    *)
(* requests the call has sent and remote is the answer to the last one.    *)
(***************************************************************************)
NewCall(op, sid, w, use_cache) ==
    [op |-> op, sid |-> sid, w |-> w, key |-> CacheKey(sid, w),
     use_cache |-> use_cache,
     pc |-> IF op = "fetch_single" THEN "ledger" ELSE "enter",
     data |-> NONE, oldest |-> NONE,
     ret |-> NONE, success |-> FALSE, err |-> NULL, raised |-> FALSE,
     net |-> 0, remote |-> NULL]

\* get_rainfall_data returns d to its caller.
GrdReturn(th, d) ==
    IF th.op = "fetch_single"
    THEN [th EXCEPT !.pc = "stamp", !.data = d]
    ELSE [th EXCEPT !.pc = "done", !.data = d, !.ret = d, !.success = TRUE]

\* get_rainfall_data raises: fetch_single_sensor_data's except clause turns
\* it into (sensor_id, None, display_name, False); a direct caller gets it.
GrdRaise(th, e) ==
    IF th.op = "fetch_single"
    THEN [th EXCEPT !.pc = "done", !.data = NONE, !.ret = NONE,
                    !.success = FALSE, !.err = e]
    ELSE [th EXCEPT !.pc = "done", !.data = NONE, !.ret = NONE,
                    !.success = FALSE, !.err = e, !.raised = TRUE]

\* GrdEnter with the freshness test made against the wrong constant.
GrdEnter_WrongTtl(api, th, t) ==
    IF Falsy(api.access_token)
    THEN [api |-> api, th |-> GrdRaise(th, "not_authenticated")]
    ELSE IF /\ th.use_cache
            /\ CacheHas(api.data_cache, th.key)
            /\ t - CacheGet(api.data_cache, th.key).timestamp < DUPLICATE_SKIP_SEC
         THEN [api |-> api, th |-> GrdReturn(th, CacheGet(api.data_cache, th.key).data)]
         ELSE [api |-> api, th |-> [th EXCEPT !.pc = "request"]]

\* GrdEnter that serves a cache entry whatever its age.
GrdEnter_NoExpiry(api, th, t) ==
    IF Falsy(api.access_token)
    THEN [api |-> api, th |-> GrdRaise(th, "not_authenticated")]
    ELSE IF th.use_cache /\ CacheHas(api.data_cache, th.key)
         THEN [api |-> api, th |-> GrdReturn(th, CacheGet(api.data_cache, th.key).data)]
         ELSE [api |-> api, th |-> [th EXCEPT !.pc = "request"]]

\* Lines 81-93: the token check, then the cache lookup (an entry always
\* carries a timestamp, so "ts is not None" is true of every entry).
GrdEnter(api, th, t) ==
    IF Falsy(api.access_token)
    THEN [api |-> api, th |-> GrdRaise(th, "not_authenticated")]
    ELSE IF /\ th.use_cache
            /\ CacheHas(api.data_cache, th.key)
            /\ t - CacheGet(api.data_cache, th.key).timestamp < CACHE_DURATION_SEC
         THEN [api |-> api, th |-> GrdReturn(th, CacheGet(api.data_cache, th.key).data)]
         ELSE [api |-> api, th |-> [th EXCEPT !.pc = "request"]]

\* GrdRequest that drops the key's cache entry when the answer is not OK.
GrdRequest_DropsEntry(api, th, t, resp) ==
    LET sent == [th EXCEPT !.net = @ + 1, !.remote = resp]
    IN IF resp = "OK"
       THEN IF th.use_cache
            THEN [api |-> api,
                  th |-> [sent EXCEPT !.pc = "capacity",
                                      !.data = RemoteRecords(th.sid, th.w, t)]]
            ELSE [api |-> api, th |-> GrdReturn(sent, RemoteRecords(th.sid, th.w, t))]
       ELSE [api |-> [api EXCEPT !.data_cache = CacheDel(@, th.key)],
             th |-> GrdRaise(sent, "remote")]

\* Lines 95-107 and 118-120: the HTTP exchange and the status test.
GrdRequest(api, th, t, resp) ==
    LET sent == [th EXCEPT !.net = @ + 1, !.remote = resp]
    IN IF resp = "OK"
       THEN IF th.use_cache
            THEN [api |-> api,
                  th |-> [sent EXCEPT !.pc = "capacity",
                                      !.data = RemoteRecords(th.sid, th.w, t)]]
            ELSE [api |-> api, th |-> GrdReturn(sent, RemoteRecords(th.sid, th.w, t))]
       ELSE [api |-> api, th |-> GrdRaise(sent, "remote")]

\* Lines 110-112: the capacity test and the search for the oldest entry.
GrdCapacity(api, th) ==
    IF Len(api.data_cache) >= MAX_CACHE_ENTRIES
    THEN [api |-> api,
          th |-> [th EXCEPT !.pc = "evict", !.oldest = OldestKey(api.data_cache)]]
    ELSE [api |-> api, th |-> [th EXCEPT !.pc = "store"]]

\* Line 113: del self._data_cache[oldest]; KeyError when the key is gone.
GrdEvict(api, th) ==
    IF CacheHas(api.data_cache, th.oldest)
    THEN [api |-> [api EXCEPT !.data_cache = CacheDel(@, th.oldest)],
          th |-> [th EXCEPT !.pc = "store"]]
    ELSE [api |-> api, th |-> GrdRaise(th, "KeyError")]

\* Lines 114-118: the store, and the return of the fresh response.
GrdStore(api, th, t) ==
    [api |-> [api EXCEPT !.data_cache = CachePut(@, th.key, th.data, t)],
     th |-> GrdReturn(th, th.data)]

\* FsLedger that renews the stamp of a request it skips.
FsLedger_StampOnSkip(api, th, t) ==
    IF /\ th.key \in DOMAIN api.last_processed_cache
       /\ t - api.last_processed_cache[th.key] < DUPLICATE_SKIP_SEC
    THEN [api |-> [api EXCEPT !.last_processed_cache = LedgerPut(@, th.key, t)],
          th |-> [th EXCEPT !.pc = "done", !.ret = NONE, !.success = TRUE,
                            !.err = "skipped"]]
    ELSE [api |-> api, th |-> [th EXCEPT !.pc = "enter"]]

\* Lines 191-198: the duplicate check of fetch_single_sensor_data.
FsLedger(api, th, t) ==
    IF /\ th.key \in DOMAIN api.last_processed_cache
       /\ t - api.last_processed_cache[th.key] < DUPLICATE_SKIP_SEC
    THEN [api |-> api,
          th |-> [th EXCEPT !.pc = "done", !.ret = NONE, !.success = TRUE,
                            !.err = "skipped"]]
    ELSE [api |-> api, th |-> [th EXCEPT !.pc = "enter"]]

\* FsStamp that returns the payload without stamping the ledger.
FsStamp_NoStamp(api, th, t) ==
    [api |-> api,
     th |-> [th EXCEPT !.pc = "done", !.ret = th.data, !.success = TRUE]]

\* Lines 203-206: the ledger stamp and the return of the payload.
FsStamp(api, th, t) ==
    [api |-> [api EXCEPT !.last_processed_cache = LedgerPut(@, th.key, t)],
     th |-> [th EXCEPT !.pc = "done", !.ret = th.data, !.success = TRUE]]

\* One step of a call at time t; resp is the remote's answer, read only by
\* the step that sends the request.
CallStep(api, th, t, resp) ==
    CASE th.pc = "ledger"   -> FsLedger(api, th, t)
      [] th.pc = "enter"    -> GrdEnter(api, th, t)
      [] th.pc = "request"  -> GrdRequest(api, th, t, resp)
      [] th.pc = "capacity" -> GrdCapacity(api, th)
      [] th.pc = "evict"    -> GrdEvict(api, th)
      [] th.pc = "store"    -> GrdStore(api, th, t)
      [] th.pc = "stamp"    -> FsStamp(api, th, t)
      [] OTHER              -> [api |-> api, th |-> th]

\* A call run to completion by a single thread with nothing interleaved.
RECURSIVE RunCall(_, _, _, _)
RunCall(api, th, t, resp) ==
    IF th.pc = "done" THEN [api |-> api, th |-> th]
    ELSE LET n == CallStep(api, th, t, resp)
         IN RunCall(n.api, n.th, t, resp)

(***************************************************************************)
(* GET /devices: the device lists the remote may answer with.              *)
(***************************************************************************)
DevA == [device_id |-> "dA", device_name |-> "Alpha", name |-> NULL,
         gps_location_lat |-> "1.5", device_latitude |-> NULL,
         gps_location_lng |-> "2.5", device_longitude |-> NULL,
         sensor_companies |-> <<"s1", "s2">>]
DevB == [device_id |-> "dB", device_name |-> NULL, name |-> "Beta",
         gps_location_lat |-> NULL, device_latitude |-> "3.5",
         gps_location_lng |-> NULL, device_longitude |-> "4.5",
         sensor_companies |-> <<"s1">>]
DevC == [device_id |-> "dC", device_name |-> NULL, name |-> NULL,
         gps_location_lat |-> NULL, device_latitude |-> NULL,
         gps_location_lng |-> NULL, device_longitude |-> NULL,
         sensor_companies |-> <<>>]
DevD == [device_id |-> "dD", device_name |-> NULL, name |-> NULL,
         gps_location_lat |-> "abc", device_latitude |-> NULL,
         gps_location_lng |-> NULL, device_longitude |-> NULL,
         sensor_companies |-> <<"s1">>]

DeviceLists == { <<>>, <<DevC>>, <<DevA>>, <<DevB, DevD>> }

\* f"Device_{device.get('device_id', 'Unknown')}"
DefaultDeviceName(id) ==
    CASE id = "dA" -> "Device_dA"
      [] id = "dB" -> "Device_dB"
      [] id = "dC" -> "Device_dC"
      [] id = "dD" -> "Device_dD"
      [] OTHER     -> "Device_None"

\* a or b
Or(a, b) == IF Falsy(a) THEN b ELSE a

\* Lines 150-155: the descriptor fields every sensor of a device shares.
DeviceInfo(device) ==
    [device_id |-> device.device_id,
     device_name |-> Or(Or(device.device_name, device.name),
                        DefaultDeviceName(device.device_id)),
     gps_location_lat |-> Or(device.gps_location_lat, device.device_latitude),
     gps_location_lng |-> Or(device.gps_location_lng, device.device_longitude)]

\* Lines 162-166: one descriptor per sensor of the device.
DeviceSensors(device) ==
    [i \in 1..Len(device.sensor_companies) |->
        [sensor_company_id |-> device.sensor_companies[i],
         device_id |-> DeviceInfo(device).device_id,
         device_name |-> DeviceInfo(device).device_name,
         gps_location_lat |-> DeviceInfo(device).gps_location_lat,
         gps_location_lng |-> DeviceInfo(device).gps_location_lng]]

\* Lines 147-166: the device list flattened, device by device.
RECURSIVE Flatten(_)
Flatten(devices) ==
    IF devices = <<>> THEN <<>>
    ELSE DeviceSensors(Head(devices)) \o Flatten(Tail(devices))

(***************************************************************************)
(* MertaniRainfallAPI.login (lines 53-77): body is the "data" of an OK     *)
(* answer.                                                                 *)
(***************************************************************************)
login(api, resp, body) ==
    IF resp = "OK"
    THEN [api |-> [api EXCEPT !.access_token = body.accessToken,
                              !.company_id = body.company_id,
                              !.authorization = body.accessToken],
          raised |-> FALSE, net |-> 1]
    ELSE [api |-> api, raised |-> TRUE, net |-> 1]

\* get_all_rainfall_sensors_with_device_info that answers a failed request
\* with the list it still holds.
get_all_rainfall_sensors_StaleFallback(api, t, resp, devices) ==
    IF /\ api.sensors_cache # NONE
       /\ api.cache_timestamp # NONE
       /\ t - api.cache_timestamp[1] < CACHE_DURATION_SEC
    THEN [api |-> api, ret |-> api.sensors_cache[1], raised |-> FALSE,
          err |-> NULL, net |-> 0]
    ELSE IF Falsy(api.access_token)
    THEN [api |-> api, ret |-> <<>>, raised |-> TRUE,
          err |-> "not_authenticated", net |-> 0]
    ELSE IF resp = "OK"
    THEN [api |-> [api EXCEPT !.sensors_cache = <<Flatten(devices)>>,
                              !.cache_timestamp = <<t>>],
          ret |-> Flatten(devices), raised |-> FALSE, err |-> NULL, net |-> 1]
    ELSE IF api.sensors_cache # NONE
    THEN [api |-> api, ret |-> api.sensors_cache[1], raised |-> FALSE,
          err |-> NULL, net |-> 1]
    ELSE [api |-> api, ret |-> <<>>, raised |-> TRUE, err |-> "remote", net |-> 1]

\* get_all_rainfall_sensors_with_device_info that extends the cached list
\* with the new descriptors instead of replacing it.
get_all_rainfall_sensors_Incremental(api, t, resp, devices) ==
    IF /\ api.sensors_cache # NONE
       /\ api.cache_timestamp # NONE
       /\ t - api.cache_timestamp[1] < CACHE_DURATION_SEC
    THEN [api |-> api, ret |-> api.sensors_cache[1], raised |-> FALSE,
          err |-> NULL, net |-> 0]
    ELSE IF Falsy(api.access_token)
    THEN [api |-> api, ret |-> <<>>, raised |-> TRUE,
          err |-> "not_authenticated", net |-> 0]
    ELSE IF resp = "OK"
    THEN LET sensors == IF api.sensors_cache = NONE THEN Flatten(devices)
                        ELSE api.sensors_cache[1] \o Flatten(devices)
         IN [api |-> [api EXCEPT !.sensors_cache = <<sensors>>,
                                 !.cache_timestamp = <<t>>],
             ret |-> sensors, raised |-> FALSE, err |-> NULL, net |-> 1]
    ELSE [api |-> api, ret |-> <<>>, raised |-> TRUE, err |-> "remote", net |-> 1]

(***************************************************************************)
(* MertaniRainfallAPI.get_all_rainfall_sensors_with_device_info            *)
(* (lines 124-180), called at time t; devices is the list of an OK answer. *)
(***************************************************************************)
get_all_rainfall_sensors_with_device_info(api, t, resp, devices) ==
    IF /\ api.sensors_cache # NONE
       /\ api.cache_timestamp # NONE
       /\ t - api.cache_timestamp[1] < CACHE_DURATION_SEC
    THEN [api |-> api, ret |-> api.sensors_cache[1], raised |-> FALSE,
          err |-> NULL, net |-> 0]
    ELSE IF Falsy(api.access_token)
    THEN [api |-> api, ret |-> <<>>, raised |-> TRUE,
          err |-> "not_authenticated", net |-> 0]
    ELSE IF resp = "OK"
    THEN [api |-> [api EXCEPT !.sensors_cache = <<Flatten(devices)>>,
                              !.cache_timestamp = <<t>>],
          ret |-> Flatten(devices), raised |-> FALSE, err |-> NULL, net |-> 1]
    ELSE [api |-> api, ret |-> <<>>, raised |-> TRUE, err |-> "remote", net |-> 1]

(***************************************************************************)
(* State.                                                                  *)
(*   api     the MertaniRainfallAPI object                                 *)
(*   now     the wall clock                                                *)
(*   ci      _CI (GITHUB_ACTIONS == "true")                                *)
(*   last    the outcome of the call the caller has just completed         *)
(*           (forgotten as soon as time passes)                            *)
(*   prevc   history: the caller's last fetch_single_sensor_data request   *)
(*   stored  history: per cache key, the payload last obtained from the    *)
(*           network by a caching call, and when; under InventoryKey, the  *)
(*           sensor list last obtained from the network, and when          *)
(*   stamped history: per cache key, when fetch_single_sensor_data last    *)
(*           returned a payload                                            *)
(*   budget  the number of calls the caller may still make                 *)
(*   fa      the running fetch_all_rainfall_data_parallel                  *)
(*   th      its pool tasks, one per submitted sensor                      *)
(*   dest    the rows of the Supabase table                                *)
(*   m       the running main()                                            *)
(***************************************************************************)
VARIABLES api, now, ci, last, prevc, stored, stamped, budget, fa, th, dest, m

vars == <<api, now, ci, last, prevc, stored, stamped, budget, fa, th, dest, m>>

NoCall == [op |-> "none"]
FaIdle == [pc |-> "idle"]
\* The locals of one run of main(); inv, rainfall_data, records and saved are
\* NONE until the run has computed them.
NewMain(email, password, supabase_env) ==
    [pc |-> "login", email |-> email, password |-> password,
     supabase_env |-> supabase_env, auth |-> FALSE, inv |-> NONE,
     rainfall_data |-> NONE, records |-> NONE, saved |-> NONE,
     stages |-> <<>>, net |-> 0, dest0 |-> 0, outcome |-> NULL, err |-> NULL]
MainIdle == [NewMain(NULL, NULL, FALSE) EXCEPT !.pc = "idle"]

Start ==
    /\ api = NewApi
    /\ now = 0
    /\ ci \in BOOLEAN
    /\ last = NoCall
    /\ prevc = NoCall
    /\ stored = <<>>
    /\ stamped = <<>>
    /\ fa = FaIdle
    /\ th = <<>>
    /\ dest = <<>>
    /\ m = MainIdle

\* Time passes (at most MaxBatchTicks times while a batch is running).
Tick ==
    /\ \E d \in TickSteps :
          /\ now + d <= MaxTime
          /\ now' = now + d
    /\ fa.pc = "running" => fa.ticks < MaxBatchTicks
    /\ fa' = IF fa.pc = "running" THEN [fa EXCEPT !.ticks = @ + 1] ELSE fa
    /\ last' = NoCall
    /\ UNCHANGED <<api, ci, prevc, stored, stamped, budget, th, dest, m>>

(***************************************************************************)
(* A single-threaded caller of the client: each action is one call, run to *)
(* completion.                                                             *)
(***************************************************************************)
MapPut(h, k, v) == [x \in DOMAIN h \cup {k} |-> IF x = k THEN v ELSE h[x]]
MapGet(h, k) == IF k \in DOMAIN h THEN <<h[k]>> ELSE <<>>
\* The place of the sensor list in the history stored.
InventoryKey == <<"inventory", 0, 0>>


ApiLogin ==
    /\ budget > 0
    /\ \E resp \in Responses, body \in LoginBodies :
          LET r == login(api, resp, body)
          IN /\ api' = r.api
             /\ last' = [op |-> "login", raised |-> r.raised,
                         net |-> r.net, token_before |-> api.access_token,
                         company_before |-> api.company_id,
                         authorization_before |-> api.authorization]
    /\ budget' = budget - 1
    /\ UNCHANGED <<now, ci, prevc, stored, stamped, fa, th, dest, m>>

ApiGetSensors ==
    /\ budget > 0
    /\ \E resp \in Responses, devices \in DeviceLists :
          LET r == get_all_rainfall_sensors_with_device_info(api, now, resp, devices)
          IN /\ api' = r.api
             /\ last' = [op |-> "get_sensors", raised |-> r.raised,
                         err |-> r.err, ret |-> r.ret, net |-> r.net,
                         token_before |-> api.access_token,
                         cache_before |-> api.sensors_cache,
                         timestamp_before |-> api.cache_timestamp,
                         remote |-> IF r.net > 0 THEN resp ELSE NULL,
                         stored_before |-> MapGet(stored, InventoryKey)]
             /\ stored' = IF r.net > 0 /\ ~r.raised
                          THEN MapPut(stored, InventoryKey,
                                      [t |-> now, data |-> r.ret])
                          ELSE stored
    /\ budget' = budget - 1
    /\ UNCHANGED <<now, ci, prevc, stamped, fa, th, dest, m>>

\* The record of a completed call c that was started in state a.
Outcome(a, c) ==
    [op |-> c.op, key |-> c.key, use_cache |-> c.use_cache,
     token_before |-> a.access_token,
     cached_before |-> CacheHas(a.data_cache, c.key),
     stored_before |-> MapGet(stored, c.key),
     stamped_before |-> MapGet(stamped, c.key),
     asked_before |-> prevc,
     ret |-> c.ret, success |-> c.success, raised |-> c.raised,
     err |-> c.err, net |-> c.net, remote |-> c.remote,
     cache_before |-> a.data_cache,
     ledger_before |-> a.last_processed_cache]

\* The histories after call c completed at time t.
StoredAfter(c, t) ==
    IF c.use_cache /\ c.net > 0 /\ c.data # NONE /\ c.err = NULL
    THEN MapPut(stored, c.key, [t |-> t, data |-> c.data])
    ELSE stored

StampedAfter(c, t) ==
    IF c.op = "fetch_single" /\ c.success /\ c.ret # NONE
    THEN MapPut(stamped, c.key, t)
    ELSE stamped

ApiGetRainfallData ==
    /\ budget > 0
    /\ \E sid \in SensorIds, w \in Windows, uc \in BOOLEAN, resp \in Responses :
          LET r == RunCall(api, NewCall("get_rainfall_data", sid, w, uc), now, resp)
          IN /\ api' = r.api
             /\ last' = Outcome(api, r.th)
             /\ stored' = StoredAfter(r.th, now)
    /\ budget' = budget - 1
    /\ UNCHANGED <<now, ci, prevc, stamped, fa, th, dest, m>>

ApiFetchSingle ==
    /\ budget > 0
    /\ \E sid \in SensorIds, w \in Windows, resp \in Responses :
          LET r == RunCall(api, NewCall("fetch_single", sid, w, TRUE), now, resp)
          IN /\ api' = r.api
             /\ last' = Outcome(api, r.th)
             /\ stored' = StoredAfter(r.th, now)
             /\ stamped' = StampedAfter(r.th, now)
             /\ prevc' = [op |-> "fetch_single", key |-> r.th.key, t |-> now,
                          success |-> r.th.success]
    /\ budget' = budget - 1
    /\ UNCHANGED <<now, ci, fa, th, dest, m>>

NextApi ==
    \/ Tick
    \/ ApiLogin
    \/ ApiGetSensors
    \/ ApiGetRainfallData
    \/ ApiFetchSingle

\* The caller's specifications leave _CI, which no call reads, at False.
InitCaller(n) == Start /\ ~ci /\ budget = n

InitApi == InitCaller(MaxCalls)

SpecApi == InitApi /\ [][NextApi]_vars

\* The same caller with a shorter budget.
InitApiShort == InitCaller(MaxShortCalls)

SpecApiShort == InitApiShort /\ [][NextApi]_vars

\* The readings cache alone: logins and get_rainfall_data calls.
NextCache ==
    \/ Tick
    \/ ApiLogin
    \/ ApiGetRainfallData

InitCache == InitCaller(MaxCacheCalls)

SpecCache == InitCache /\ [][NextCache]_vars

\* The duplicate ledger: logins and fetch_single_sensor_data calls.
NextDedup ==
    \/ Tick
    \/ ApiLogin
    \/ ApiFetchSingle

InitDedup == InitCaller(MaxDedupCalls)

SpecDedup == InitDedup /\ [][NextDedup]_vars

(***************************************************************************)
(* fetch_all_rainfall_data_parallel (lines 211-266).                       *)
(*                                                                         *)
(* fa.pc is "running" from the submission of the tasks to the return,      *)
(* then "returned" or "raised". all_data is the dict being filled, kept as *)
(* the sequence of its entries in insertion order.                         *)
(***************************************************************************)
Min(a, b) == IF a <= b THEN a ELSE b

\* all_data[sensor_id] = data
DictPut(d, k, v) ==
    IF \E i \in 1..Len(d) : d[i].key = k
    THEN [i \in 1..Len(d) |-> IF d[i].key = k THEN [key |-> k, value |-> v] ELSE d[i]]
    ELSE Append(d, [key |-> k, value |-> v])

DictKeys(d) == {d[i].key : i \in 1..Len(d)}

\* Lines 213-245: the window, the sensor list, the pool and the submission
\* of one task per sensor; max_workers is the caller's argument.
FaBegin(max_workers) ==
    \E resp \in Responses, devices \in DeviceLists :
        LET inv == get_all_rainfall_sensors_with_device_info(api, now, resp, devices)
            w == BatchWindow(now)
        IN /\ api' = inv.api
           /\ IF inv.raised
              THEN /\ fa' = [pc |-> "raised", err |-> inv.err, inv_net |-> inv.net]
                   /\ th' = <<>>
              ELSE /\ fa' = [pc |-> "running", w |-> w, sensors |-> inv.ret,
                             inv_net |-> inv.net,
                             max_workers |-> IF ci THEN Min(max_workers, 8)
                                             ELSE max_workers,
                             started |-> 0, collected |-> {}, ticks |-> 0,
                             all_data |-> <<>>, success_count |-> 0]
                   /\ th' = [i \in 1..Len(inv.ret) |->
                               NewCall("fetch_single",
                                       inv.ret[i].sensor_company_id, w, TRUE)]

\* The tasks a pool thread is executing.
Running == {i \in 1..Len(th) : i <= fa.started /\ th[i].pc # "done"}

\* One step of task i on a pool thread. Tasks are taken from the queue in
\* submission order, while fewer than max_workers are being executed.
WorkerStep(i) ==
    /\ fa.pc = "running"
    /\ i \in 1..Len(th)
    /\ th[i].pc # "done"
    /\ \/ i <= fa.started
       \/ i = fa.started + 1 /\ Cardinality(Running) < fa.max_workers
    /\ \E resp \in Responses :
          LET r == CallStep(api, th[i], now, resp)
          IN /\ api' = r.api
             /\ th' = [th EXCEPT ![i] = r.th]
    /\ fa' = [fa EXCEPT !.started = IF i > @ THEN i ELSE @]
    /\ UNCHANGED <<now, ci, last, prevc, stored, stamped, budget, dest, m>>

\* Collect that records a sensor in all_data only when its task succeeded.
Collect_SkipFailed(i) ==
    /\ fa.pc = "running"
    /\ i \in 1..Len(th)
    /\ th[i].pc = "done"
    /\ i \notin fa.collected
    /\ fa' = [fa EXCEPT !.collected = @ \cup {i},
                        !.all_data = IF th[i].success
                                     THEN DictPut(@, th[i].sid, th[i].ret) ELSE @,
                        !.success_count = IF th[i].success THEN @ + 1 ELSE @]
    /\ UNCHANGED <<api, now, ci, last, prevc, stored, stamped, budget, th, dest, m>>

\* Lines 248-255: as_completed hands over a finished task, in any order.
Collect(i) ==
    /\ fa.pc = "running"
    /\ i \in 1..Len(th)
    /\ th[i].pc = "done"
    /\ i \notin fa.collected
    /\ fa' = [fa EXCEPT !.collected = @ \cup {i},
                        !.all_data = DictPut(@, th[i].sid, th[i].ret),
                        !.success_count = IF th[i].success THEN @ + 1 ELSE @]
    /\ UNCHANGED <<api, now, ci, last, prevc, stored, stamped, budget, th, dest, m>>

\* fetch_all_rainfall_data_parallel returning without waiting for its tasks.
FaReturn_NoJoin ==
    /\ fa.pc = "running"
    /\ fa' = IF ~ci /\ Len(fa.sensors) = 0
             THEN [pc |-> "raised", err |-> "ZeroDivisionError",
                   inv_net |-> fa.inv_net]
             ELSE [fa EXCEPT !.pc = "returned"]
    /\ UNCHANGED <<api, now, ci, last, prevc, stored, stamped, budget, th, dest, m>>

\* Lines 256-266: every task handed over, the report and the return. The
\* local report divides by the number of sensors.
FaReturn ==
    /\ fa.pc = "running"
    /\ fa.collected = 1..Len(th)
    /\ fa' = IF ~ci /\ Len(fa.sensors) = 0
             THEN [pc |-> "raised", err |-> "ZeroDivisionError",
                   inv_net |-> fa.inv_net]
             ELSE [fa EXCEPT !.pc = "returned"]
    /\ UNCHANGED <<api, now, ci, last, prevc, stored, stamped, budget, th, dest, m>>

(***************************************************************************)
(* A caller that logs in and runs batches on one client object.            *)
(***************************************************************************)
BatchStart ==
    /\ budget > 0
    /\ m.pc = "idle"
    /\ fa.pc # "running"
    /\ \E max_workers \in {1, 10} : FaBegin(max_workers)
    /\ budget' = budget - 1
    /\ last' = NoCall
    /\ UNCHANGED <<now, ci, prevc, stored, stamped, dest, m>>

BatchLogin ==
    /\ fa.pc # "running"
    /\ ApiLogin

NextBatch ==
    \/ Tick
    \/ BatchLogin
    \/ BatchStart
    \/ \E i \in 1..Len(th) : WorkerStep(i)
    \/ \E i \in 1..Len(th) : Collect(i)
    \/ FaReturn

InitBatch == Start /\ budget = MaxBatchCalls

SpecBatch == InitBatch /\ [][NextBatch]_vars

(***************************************************************************)
(* SupabaseSync.transform_rainfall_data. A payload is the decoded response *)
(* with its data.data list under data. An optional number is <<>> for None *)
(* and <<x>> for x, x in tenths.                                           *)
(***************************************************************************)
Parses(value) == value \in {"0.5", "1.5", "2.5", "3.5", "4.5"}

FloatOf(value) ==
    CASE value = "0.5" -> 5
      [] value = "1.5" -> 15
      [] value = "2.5" -> 25
      [] value = "3.5" -> 35
      [] value = "4.5" -> 45

\* _safe_float: None for None and for what float() rejects.
safe_float(value) ==
    IF value = NULL THEN <<>>
    ELSE IF Parses(value) THEN <<FloatOf(value)>> ELSE <<>>

\* str(x) if x else None
StrOrNone(value) == IF Falsy(value) THEN NULL ELSE value

\* device_info_map.get(sensor_id, {}): the comprehension keeps the last
\* descriptor of an id; NONE is the empty dict.
DeviceInfoMapGet(sensors, sensor_id) ==
    LET hits == {i \in 1..Len(sensors) : sensors[i].sensor_company_id = sensor_id}
    IN IF hits = {} THEN NONE
       ELSE <<sensors[CHOOSE i \in hits : \A j \in hits : j <= i]>>

\* Lines 311-325 (raw_data is the JSON text of sensor_record).
TransformedRecord(sensor_id, sensor_master, sensor_record, device_info, current_time) ==
    [sensor_company_id |-> sensor_id,
     sensor_name |-> sensor_master.sensor_name,
     sensor_unit |-> sensor_master.sensor_unit,
     device_id |-> IF device_info = NONE THEN NULL
                   ELSE StrOrNone(device_info[1].device_id),
     device_name |-> IF device_info = NONE THEN NULL
                     ELSE StrOrNone(device_info[1].device_name),
     gps_location_lat |-> IF device_info = NONE THEN <<>>
                          ELSE safe_float(device_info[1].gps_location_lat),
     gps_location_lng |-> IF device_info = NONE THEN <<>>
                          ELSE safe_float(device_info[1].gps_location_lng),
     datetime |-> sensor_record.datetime,
     value_calibration |-> safe_float(sensor_record.value_calibration),
     value_raw |-> safe_float(sensor_record.value_raw),
     timestamp |-> current_time,
     raw_data |-> sensor_record,
     created_at |-> current_time]

RECURSIVE ConcatAll(_)
ConcatAll(seqs) ==
    IF seqs = <<>> THEN <<>> ELSE Head(seqs) \o ConcatAll(Tail(seqs))

\* Lines 299-326 for one payload.
RecordsOfPayload(sensor_id, sensor_data, device_info, current_time) ==
    ConcatAll([r \in 1..Len(sensor_data.data) |->
                 [k \in 1..Len(sensor_data.data[r].sensor_records) |->
                    TransformedRecord(sensor_id,
                                      sensor_data.data[r].sensor_master,
                                      sensor_data.data[r].sensor_records[k],
                                      device_info, current_time)]])

\* transform_rainfall_data dropping a sensor the inventory does not list.
transform_rainfall_data_SkipsUnknownSensors(rainfall_data, sensors_with_device_info, current_time) ==
    ConcatAll([e \in 1..Len(rainfall_data) |->
                 IF rainfall_data[e].value = NONE THEN <<>>
                 ELSE IF rainfall_data[e].value.status # "OK" THEN <<>>
                 ELSE IF DeviceInfoMapGet(sensors_with_device_info,
                                          rainfall_data[e].key) = NONE THEN <<>>
                 ELSE RecordsOfPayload(rainfall_data[e].key,
                                       rainfall_data[e].value,
                                       DeviceInfoMapGet(sensors_with_device_info,
                                                        rainfall_data[e].key),
                                       current_time)])

\* Lines 277-335, at clock value current_time.
transform_rainfall_data(rainfall_data, sensors_with_device_info, current_time) ==
    ConcatAll([e \in 1..Len(rainfall_data) |->
                 IF rainfall_data[e].value = NONE THEN <<>>
                 ELSE IF rainfall_data[e].value.status # "OK" THEN <<>>
                 ELSE RecordsOfPayload(rainfall_data[e].key,
                                       rainfall_data[e].value,
                                       DeviceInfoMapGet(sensors_with_device_info,
                                                        rainfall_data[e].key),
                                       current_time)])

(***************************************************************************)
(* SupabaseSync.save_to_supabase. The destination answers each insert call *)
(* as the plan says: the bulk insert of batch b fails when b is in         *)
(* bulk_fail, the insert of the single row i of the list fails when i is   *)
(* in row_fail. An insert that fails writes nothing; one that succeeds     *)
(* answers with the rows it wrote. attempts lists the insert calls made.   *)
(***************************************************************************)
InsertPlans ==
    {[bulk_fail |-> B, row_fail |-> R] :
        B \in SUBSET {1, 2}, R \in {{}, {1}, {1, 2, 3, 4}}}

\* SaveRow that counts a row as saved whether or not its insert succeeded.
SaveRow_CountsAttempts(st, records, i, plan) ==
    LET ok == i \notin plan.row_fail
    IN [dest |-> IF ok THEN Append(st.dest, records[i]) ELSE st.dest,
        total_saved |-> st.total_saved + 1,
        attempts |-> Append(st.attempts,
                            [kind |-> "row", first |-> i, last |-> i, ok |-> ok])]

\* Lines 361-366.
SaveRow(st, records, i, plan) ==
    LET ok == i \notin plan.row_fail
    IN [dest |-> IF ok THEN Append(st.dest, records[i]) ELSE st.dest,
        total_saved |-> IF ok THEN st.total_saved + 1 ELSE st.total_saved,
        attempts |-> Append(st.attempts,
                            [kind |-> "row", first |-> i, last |-> i, ok |-> ok])]

\* SaveRows that gives up on the batch at the first row that fails.
RECURSIVE SaveRows_StopAtFailure(_, _, _, _, _)
SaveRows_StopAtFailure(st, records, i, hi, plan) ==
    IF i > hi THEN st
    ELSE IF i \in plan.row_fail THEN SaveRow(st, records, i, plan)
    ELSE SaveRows_StopAtFailure(SaveRow(st, records, i, plan), records,
                                i + 1, hi, plan)

\* Lines 359-366.
RECURSIVE SaveRows(_, _, _, _, _)
SaveRows(st, records, i, hi, plan) ==
    IF i > hi THEN st
    ELSE SaveRows(SaveRow(st, records, i, plan), records, i + 1, hi, plan)

\* Lines 350-366 for the b-th batch.
SaveBatch(st, records, b, plan) ==
    LET lo == (b - 1) * SUPABASE_BATCH_SIZE + 1
        hi == Min(b * SUPABASE_BATCH_SIZE, Len(records))
        ok == b \notin plan.bulk_fail
        tried == [st EXCEPT !.attempts =
                     Append(@, [kind |-> "bulk", first |-> lo, last |-> hi,
                                ok |-> ok])]
    IN IF ok
       THEN [tried EXCEPT !.dest = @ \o SubSeq(records, lo, hi),
                          !.total_saved = @ + (hi - lo + 1)]
       ELSE SaveRows(tried, records, lo, hi, plan)

\* Line 349.
RECURSIVE SaveBatches(_, _, _, _)
SaveBatches(st, records, b, plan) ==
    IF (b - 1) * SUPABASE_BATCH_SIZE >= Len(records) THEN st
    ELSE SaveBatches(SaveBatch(st, records, b, plan), records, b + 1, plan)

\* Lines 339-373 on destination contents d. Every insert call sits in a try
\* of its own (lines 351-366), so a failing destination never reaches the
\* handler of lines 371-373 and the function returns at line 342 or 370.
save_to_supabase(d, records, plan) ==
    IF records = <<>>
    THEN [dest |-> d, ret |-> TRUE, total_saved |-> 0, attempts |-> <<>>]
    ELSE LET st == SaveBatches([dest |-> d, total_saved |-> 0, attempts |-> <<>>],
                               records, 1, plan)
         IN [dest |-> st.dest, ret |-> TRUE, total_saved |-> st.total_saved,
             attempts |-> st.attempts]

(***************************************************************************)
(* A long-lived caller that logs in, runs batches on one client object and *)
(* persists what each batch returned (lines 405-408 on the batch's map).   *)
(***************************************************************************)
SyncPersist ==
    /\ fa.pc = "returned"
    /\ m.pc = "idle"
    /\ \E plan \in InsertPlans :
          LET records == transform_rainfall_data(fa.all_data, fa.sensors, now)
          IN dest' = IF records = <<>> THEN dest
                     ELSE save_to_supabase(dest, records, plan).dest
    /\ fa' = [pc |-> "persisted"]
    /\ UNCHANGED <<api, now, ci, last, prevc, stored, stamped, budget, th, m>>

SyncTick ==
    /\ fa.pc # "running"
    /\ Tick

NextSync ==
    \/ SyncTick
    \/ BatchLogin
    \/ BatchStart
    \/ \E i \in 1..Len(th) : WorkerStep(i)
    \/ \E i \in 1..Len(th) : Collect(i)
    \/ FaReturn
    \/ SyncPersist

InitSync == Start /\ ~ci /\ budget = MaxSyncCalls

SpecSync == InitSync /\ [][NextSync]_vars

(***************************************************************************)
(* main(). One run is cut at its calls into the client and the store, so   *)
(* that time may pass between them; stages lists the stages the run has    *)
(* entered, net counts the network calls it has made (login, inventory,    *)
(* readings, insert), dest0 is the size of the destination at its start.   *)
(***************************************************************************)
Emails == {NULL, "user@example.org"}
Passwords == {NULL, "", "secret"}

RECURSIVE SumNet(_)
SumNet(calls) ==
    IF calls = <<>> THEN 0 ELSE Head(calls).net + SumNet(Tail(calls))

\* main() without the check of lines 385-387.
MainStart_NoCredentialCheck ==
    /\ m.pc = "idle"
    /\ \E email \in Emails, password \in Passwords, supabase_env \in BOOLEAN :
          m' = [NewMain(email, password, supabase_env) EXCEPT !.dest0 = Len(dest)]
    /\ fa' = FaIdle
    /\ th' = <<>>
    /\ last' = NoCall
    /\ UNCHANGED <<api, now, ci, prevc, stored, stamped, budget, dest>>

\* Lines 436-437, 382-387 and the entry of the try block: the process runs
\* main() once.
MainStart ==
    /\ m.pc = "idle"
    /\ \E email \in Emails, password \in Passwords, supabase_env \in BOOLEAN :
          m' = IF Falsy(email) \/ Falsy(password)
               THEN [NewMain(email, password, supabase_env) EXCEPT
                        !.pc = "done", !.outcome = "no_credentials",
                        !.dest0 = Len(dest)]
               ELSE [NewMain(email, password, supabase_env) EXCEPT
                        !.dest0 = Len(dest)]
    /\ fa' = FaIdle
    /\ th' = <<>>
    /\ last' = NoCall
    /\ UNCHANGED <<api, now, ci, prevc, stored, stamped, budget, dest>>

\* Lines 391-392: a new client, then login; an exception leaves main.
MainLogin ==
    /\ m.pc = "login"
    /\ \E resp \in Responses, body \in LoginBodies :
          LET r == login(NewApi, resp, body)
          IN /\ api' = r.api
             /\ m' = IF r.raised
                     THEN [m EXCEPT !.pc = "raised", !.err = "login",
                                    !.stages = Append(@, "login"),
                                    !.net = @ + r.net]
                     ELSE [m EXCEPT !.pc = "inventory",
                                    !.auth = r.api.access_token # NULL,
                                    !.stages = Append(@, "login"),
                                    !.net = @ + r.net]
    /\ UNCHANGED <<now, ci, last, prevc, stored, stamped, budget, fa, th, dest>>

\* Lines 394-397 with the empty-list return left out.
MainInventory_NoEmptyCheck ==
    /\ m.pc = "inventory"
    /\ \E resp \in Responses, devices \in DeviceLists :
          LET r == get_all_rainfall_sensors_with_device_info(api, now, resp, devices)
          IN /\ api' = r.api
             /\ m' = IF r.raised
                     THEN [m EXCEPT !.pc = "raised", !.err = r.err,
                                    !.stages = Append(@, "inventory"),
                                    !.net = @ + r.net]
                     ELSE [m EXCEPT !.pc = "fetch", !.inv = <<r.ret>>,
                                    !.stages = Append(@, "inventory"),
                                    !.net = @ + r.net]
    /\ UNCHANGED <<now, ci, last, prevc, stored, stamped, budget, fa, th, dest>>

\* Lines 394-397.
MainInventory ==
    /\ m.pc = "inventory"
    /\ \E resp \in Responses, devices \in DeviceLists :
          LET r == get_all_rainfall_sensors_with_device_info(api, now, resp, devices)
          IN /\ api' = r.api
             /\ m' = IF r.raised
                     THEN [m EXCEPT !.pc = "raised", !.err = r.err,
                                    !.stages = Append(@, "inventory"),
                                    !.net = @ + r.net]
                     ELSE IF r.ret = <<>>
                     THEN [m EXCEPT !.pc = "done", !.outcome = "no_sensors",
                                    !.inv = <<r.ret>>,
                                    !.stages = Append(@, "inventory"),
                                    !.net = @ + r.net]
                     ELSE [m EXCEPT !.pc = "fetch", !.inv = <<r.ret>>,
                                    !.stages = Append(@, "inventory"),
                                    !.net = @ + r.net]
    /\ UNCHANGED <<now, ci, last, prevc, stored, stamped, budget, fa, th, dest>>

\* Line 399: fetch_all_rainfall_data_parallel(days=1), max_workers = 10.
MainFetch ==
    /\ m.pc = "fetch"
    /\ FaBegin(10)
    /\ m' = [m EXCEPT !.pc = "fetching", !.stages = Append(@, "fetch")]
    /\ UNCHANGED <<now, ci, last, prevc, stored, stamped, budget, dest>>

\* Lines 399-402: the batch has returned or raised; the store's settings.
MainFetched ==
    /\ m.pc = "fetching"
    /\ fa.pc \in {"returned", "raised"}
    /\ m' = IF fa.pc = "raised"
            THEN [m EXCEPT !.pc = "raised", !.err = fa.err,
                           !.net = @ + fa.inv_net + SumNet(th)]
            ELSE [m EXCEPT !.pc = IF m.supabase_env THEN "transform" ELSE "summary",
                           !.rainfall_data = <<fa.all_data>>,
                           !.net = @ + fa.inv_net + SumNet(th)]
    /\ UNCHANGED <<api, now, ci, last, prevc, stored, stamped, budget, fa, th, dest>>

\* Line 405 with a transform that pops the payloads it has converted.
MainTransform_ConsumesMap ==
    /\ m.pc = "transform"
    /\ LET records == transform_rainfall_data(m.rainfall_data[1], m.inv[1], now)
       IN m' = [m EXCEPT !.pc = IF records # <<>> THEN "persist" ELSE "summary",
                         !.records = <<records>>,
                         !.rainfall_data =
                            <<[e \in 1..Len(m.rainfall_data[1]) |->
                                 [key |-> m.rainfall_data[1][e].key,
                                  value |-> NONE]]>>,
                         !.stages = Append(@, "transform")]
    /\ UNCHANGED <<api, now, ci, last, prevc, stored, stamped, budget, fa, th, dest>>

\* Lines 404-407 and 413-414.
MainTransform ==
    /\ m.pc = "transform"
    /\ LET records == transform_rainfall_data(m.rainfall_data[1], m.inv[1], now)
       IN m' = [m EXCEPT !.pc = IF records # <<>> THEN "persist" ELSE "summary",
                         !.records = <<records>>,
                         !.stages = Append(@, "transform")]
    /\ UNCHANGED <<api, now, ci, last, prevc, stored, stamped, budget, fa, th, dest>>

\* Lines 408-412 with a failed insert call raised to main.
MainPersist_FailRaises ==
    /\ m.pc = "persist"
    /\ \E plan \in InsertPlans :
          LET r == save_to_supabase(dest, m.records[1], plan)
              failed == \E a \in 1..Len(r.attempts) : ~r.attempts[a].ok
          IN /\ dest' = r.dest
             /\ m' = [m EXCEPT !.pc = IF failed THEN "raised" ELSE "summary",
                               !.err = IF failed THEN "insert" ELSE @,
                               !.saved = <<[ret |-> r.ret,
                                            total_saved |-> r.total_saved,
                                            attempts |-> r.attempts]>>,
                               !.stages = Append(@, "persist"),
                               !.net = @ + Len(r.attempts)]
    /\ UNCHANGED <<api, now, ci, last, prevc, stored, stamped, budget, fa, th>>

\* Lines 408-412.
MainPersist ==
    /\ m.pc = "persist"
    /\ \E plan \in InsertPlans :
          LET r == save_to_supabase(dest, m.records[1], plan)
          IN /\ dest' = r.dest
             /\ m' = [m EXCEPT !.pc = "summary",
                               !.saved = <<[ret |-> r.ret,
                                            total_saved |-> r.total_saved,
                                            attempts |-> r.attempts]>>,
                               !.stages = Append(@, "persist"),
                               !.net = @ + Len(r.attempts)]
    /\ UNCHANGED <<api, now, ci, last, prevc, stored, stamped, budget, fa, th>>

\* Lines 419-420.
TotalSensors(rainfall_data) == Len(rainfall_data)
SuccessCount(rainfall_data) ==
    Cardinality({e \in 1..Len(rainfall_data) : rainfall_data[e].value # NONE})

\* Lines 418-430.
MainSummary ==
    /\ m.pc = "summary"
    /\ m' = [m EXCEPT !.pc = "done", !.outcome = "summary",
                      !.stages = Append(@, "summary")]
    /\ UNCHANGED <<api, now, ci, last, prevc, stored, stamped, budget, fa, th, dest>>

NextMain ==
    \/ Tick
    \/ MainStart
    \/ MainLogin
    \/ MainInventory
    \/ MainFetch
    \/ \E i \in 1..Len(th) : WorkerStep(i)
    \/ \E i \in 1..Len(th) : Collect(i)
    \/ FaReturn
    \/ MainFetched
    \/ MainTransform
    \/ MainPersist
    \/ MainSummary

InitMain == Start /\ budget = 0

SpecMain == InitMain /\ [][NextMain]_vars

(***************************************************************************)
(* transform_rainfall_data applied on its own: a caller hands it a batch   *)
(* result map and a sensor list of its choice. A map value is None, an OK  *)
(* answer with one or two readings, or an answer with another status; the  *)
(* sensor list is one the inventory call can return, so the sensor "s3"    *)
(* never has a descriptor.                                                 *)
(***************************************************************************)
MaxMapLen == 3

TransformIds == SensorIds \cup {"s3"}

TransformPayloads(sid) ==
    { NONE,
      [status |-> "ERR", data |-> <<>>],
      RemoteRecords(sid, <<0, DAY_SEC>>, 0),
      RemoteRecords(sid, <<0, DAY_SEC>>, 50) }

\* The dicts of at most MaxMapLen entries, in every insertion order.
TransformMaps ==
    UNION { { d \in [1..n -> [key : TransformIds,
                              value : UNION {TransformPayloads(sid) :
                                               sid \in TransformIds}]] :
                /\ \A e \in 1..n : d[e].value \in TransformPayloads(d[e].key)
                /\ \A e, f \in 1..n : d[e].key = d[f].key => e = f }
            : n \in 0..MaxMapLen }

InitTransform ==
    /\ api = NewApi
    /\ now \in {0, 50}
    /\ ci \in BOOLEAN
    /\ last = NoCall
    /\ prevc = NoCall
    /\ stored = <<>>
    /\ stamped = <<>>
    /\ budget = 0
    /\ fa = FaIdle
    /\ th = <<>>
    /\ dest = <<>>
    /\ \E rainfall_data \in TransformMaps, devices \in DeviceLists :
          m = [MainIdle EXCEPT !.pc = "transform",
                               !.rainfall_data = <<rainfall_data>>,
                               !.inv = <<Flatten(devices)>>]

NextTransform == MainTransform

SpecTransform == InitTransform /\ [][NextTransform]_vars

(***************************************************************************)
(* C2. Original statement: a second get_rainfall_data(use_cache=True) call *)
(* for a key, made with a token held and less than CACHE_DURATION_SEC      *)
(* after an earlier call fetched the key's payload, sends no request and   *)
(* returns that payload.                                                   *)
(***************************************************************************)
C2_SecondCallWithinTtlHits ==
    (/\ last.op = "get_rainfall_data"
     /\ last.use_cache
     /\ ~Falsy(last.token_before)
     /\ last.stored_before # <<>>
     /\ now - last.stored_before[1].t < CACHE_DURATION_SEC)
    => (/\ last.net = 0
        /\ ~last.raised
        /\ last.ret = last.stored_before[1].data)

(***************************************************************************)
(* C2, amended: the same, provided the key's entry is still in the cache   *)
(* when the second call starts (it was not evicted to make room for        *)
(* another key).                                                           *)
(***************************************************************************)
C2_SecondCallHitsUnlessEvicted ==
    (/\ last.op = "get_rainfall_data"
     /\ last.use_cache
     /\ ~Falsy(last.token_before)
     /\ last.cached_before
     /\ last.stored_before # <<>>
     /\ now - last.stored_before[1].t < CACHE_DURATION_SEC)
    => (/\ last.net = 0
        /\ ~last.raised
        /\ last.ret = last.stored_before[1].data)

\* A call served from the cache 250 s after the fetch, with a payload the
\* remote would no longer answer.
C2_Witness ==
    /\ last.op = "get_rainfall_data"
    /\ last.use_cache
    /\ last.cached_before
    /\ last.stored_before # <<>>
    /\ now - last.stored_before[1].t = 250
    /\ last.net = 0
    /\ last.ret = last.stored_before[1].data
    /\ last.ret # RemoteRecords(last.key[1], <<last.key[2], last.key[3]>>, now)

(***************************************************************************)
(* C3. Original statement: a fetch_single_sensor_data request for a key    *)
(* made, with a token held, less than DUPLICATE_SKIP_SEC after an earlier  *)
(* request for the key that was marked successful returns a null payload   *)
(* marked successful and sends no request.                                 *)
(***************************************************************************)
C3_SecondRequestWithin60IsSkipped ==
    (/\ last.op = "fetch_single"
     /\ ~Falsy(last.token_before)
     /\ last.asked_before.op = "fetch_single"
     /\ last.asked_before.key = last.key
     /\ last.asked_before.success
     /\ now - last.asked_before.t < DUPLICATE_SKIP_SEC)
    => (/\ last.ret = NONE
        /\ last.success
        /\ last.net = 0)

(***************************************************************************)
(* C3, amended: a fetch_single_sensor_data request for a key made less     *)
(* than DUPLICATE_SKIP_SEC after an earlier request for the key returned a *)
(* payload returns a null payload marked successful and sends no request.  *)
(***************************************************************************)
C3_RequestWithin60OfPayloadIsSkipped ==
    (/\ last.op = "fetch_single"
     /\ last.stamped_before # <<>>
     /\ now - last.stamped_before[1] < DUPLICATE_SKIP_SEC)
    => (/\ last.ret = NONE
        /\ last.success
        /\ last.net = 0)

\* A request skipped 50 s after the key's payload was returned.
C3_Witness ==
    /\ last.op = "fetch_single"
    /\ last.stamped_before # <<>>
    /\ now - last.stamped_before[1] = 50
    /\ last.ret = NONE
    /\ last.success
    /\ last.net = 0

(***************************************************************************)
(* C10. With no token held, get_all_rainfall_sensors_with_device_info and  *)
(* get_rainfall_data both raise the not-authenticated error without        *)
(* sending a request and without returning data.                           *)
(***************************************************************************)
C10_NoTokenFailsFast ==
    (/\ last.op \in {"get_sensors", "get_rainfall_data"}
     /\ Falsy(last.token_before))
    => (/\ last.raised
        /\ last.err = "not_authenticated"
        /\ last.net = 0)

(***************************************************************************)
(* C4. Original statement: the map fetch_all_rainfall_data_parallel        *)
(* returns has as many entries as the sensor list has elements.            *)
(***************************************************************************)
BatchIds == {fa.sensors[i].sensor_company_id : i \in 1..Len(fa.sensors)}

C5_OkSensorKeepsPayload ==
    (/\ fa.pc = "returned"
     /\ Cardinality(BatchIds) = Len(fa.sensors))
    => \A i \in 1..Len(th) :
          th[i].remote = "OK" =>
             \E e \in 1..Len(fa.all_data) :
                /\ fa.all_data[e].key = th[i].sid
                /\ fa.all_data[e].value # NONE

(***************************************************************************)
(* C1. No reading (same sensor, same reading timestamp) is inserted into   *)
(* the destination more than once by the batches of one long-lived client. *)
(***************************************************************************)
C1_NoReadingInsertedTwice ==
    \A i, j \in 1..Len(dest) :
        (/\ dest[i].sensor_company_id = dest[j].sensor_company_id
         /\ dest[i].datetime = dest[j].datetime) => i = j

(***************************************************************************)
(* C6. A run started without the e-mail or without the password ends at    *)
(* once, without error: it enters no stage, makes no network call, creates *)
(* no client and no task, and writes nothing to the destination.           *)
(***************************************************************************)
C6_MissingCredentialsEndAtOnce ==
    (m.pc # "idle" /\ (Falsy(m.email) \/ Falsy(m.password))) =>
        /\ m.pc = "done"
        /\ m.outcome = "no_credentials"
        /\ m.stages = <<>>
        /\ m.net = 0
        /\ api = NewApi
        /\ fa = FaIdle
        /\ th = <<>>
        /\ Len(dest) = m.dest0

C6_Witness ==
    /\ m.pc = "done"
    /\ m.outcome = "no_credentials"
    /\ ~Falsy(m.email)
    /\ m.password = ""

(***************************************************************************)
(* C7. Original statement: once a run has authenticated, it never ends by  *)
(* a propagated exception.                                                 *)
(***************************************************************************)
C7_AuthenticatedRunNeverRaises ==
    m.auth => m.pc # "raised"

(***************************************************************************)
(* C7, amended: a run that has authenticated ends by a propagated          *)
(* exception only when the inventory listing fails in main or when         *)
(* fetch_all_rainfall_data_parallel itself raises (its own inventory read  *)
(* or its report); errors of per-sensor fetches and of insert calls are    *)
(* absorbed, so that nothing raises once the batch has returned.           *)
(***************************************************************************)
C7_OnlyInventoryOrBatchErrorsPropagate ==
    (m.auth /\ m.pc = "raised") =>
        /\ m.stages \in {<<"login", "inventory">>, <<"login", "inventory", "fetch">>}
        /\ m.err \in {"remote", "ZeroDivisionError"}
        /\ Len(m.stages) = 3 => fa.pc = "raised" /\ fa.err = m.err
        /\ m.rainfall_data = NONE

\* The inventory listing failed after a successful login.
C7_Witness ==
    /\ m.auth
    /\ m.pc = "raised"
    /\ m.stages = <<"login", "inventory">>
    /\ m.err = "remote"

(***************************************************************************)
(* C8. The stages of a run occur in the order login, inventory, fetch,     *)
(* transform, persist, summary: tasks exist only after login and inventory *)
(* have completed, and transform, persist and summary start only after     *)
(* every task of the batch has finished and been collected.                *)
(***************************************************************************)
StageOrder == <<"login", "inventory", "fetch", "transform", "persist", "summary">>

StagePos(stage) == CHOOSE p \in 1..Len(StageOrder) : StageOrder[p] = stage

C8_StagesInOrderAndJoined ==
    /\ \A i, j \in 1..Len(m.stages) :
          i < j => StagePos(m.stages[i]) < StagePos(m.stages[j])
    /\ \A i \in 1..Len(m.stages) :
          i <= 3 => m.stages[i] = StageOrder[i]
    /\ (\E i \in 1..Len(m.stages) : m.stages[i] = "persist") =>
          (\E i \in 1..Len(m.stages) : m.stages[i] = "transform")
    /\ (fa.pc # "idle" \/ th # <<>>) =>
          Len(m.stages) >= 3 /\ m.auth
    /\ (m.pc \in {"transform", "persist", "summary"}
        \/ (m.pc = "done" /\ m.outcome = "summary")) =>
          /\ fa.pc = "returned"
          /\ fa.collected = 1..Len(th)
          /\ \A i \in 1..Len(th) : th[i].pc = "done"
          /\ Len(th) = Len(fa.sensors)

\* A complete run over two tasks, one of which failed.
C8_Witness ==
    /\ m.pc = "done"
    /\ m.stages = StageOrder
    /\ Len(th) = 2
    /\ \E i \in 1..Len(th) : ~th[i].success

(***************************************************************************)
(* C9. A run whose inventory is empty ends right after the inventory       *)
(* stage, without error: no batch is started, no task is created, nothing  *)
(* is transformed and nothing is inserted.                                 *)
(***************************************************************************)
C9_EmptyInventoryEndsRun ==
    m.inv = << <<>> >> =>
        /\ m.pc = "done"
        /\ m.outcome = "no_sensors"
        /\ m.stages = <<"login", "inventory">>
        /\ fa = FaIdle
        /\ th = <<>>
        /\ m.rainfall_data = NONE
        /\ m.records = NONE
        /\ m.saved = NONE
        /\ m.net = 2
        /\ Len(dest) = m.dest0

C9_Witness ==
    /\ m.inv = << <<>> >>
    /\ m.pc = "done"
    /\ m.outcome = "no_sensors"
    /\ now > 0

(***************************************************************************)
(* C11. login either raises, leaving the token, the company id and the     *)
(* Authorization header as they were, or returns with a non-empty token    *)
(* held.                                                                   *)
(***************************************************************************)
C11_LoginFailsOrHoldsToken ==
    last.op = "login" =>
        IF last.raised
        THEN /\ api.access_token = last.token_before
             /\ api.company_id = last.company_before
             /\ api.authorization = last.authorization_before
        ELSE ~Falsy(api.access_token)

(***************************************************************************)
(* C12. get_all_rainfall_sensors_with_device_info sends no request and     *)
(* returns the cached list when the inventory cache is less than           *)
(* CACHE_DURATION_SEC old; otherwise, with a token held, it sends exactly  *)
(* one request and, when that is answered OK, replaces the cached list and *)
(* its timestamp by the flattened answer (one descriptor per sensor of     *)
(* each device, in order, none for a device without sensors) and returns   *)
(* that list.                                                              *)
(***************************************************************************)
RECURSIVE SensorCount(_)
SensorCount(devices) ==
    IF devices = <<>> THEN 0
    ELSE Len(Head(devices).sensor_companies) + SensorCount(Tail(devices))

FlattenedAnswer(sensors, devices) ==
    /\ Len(sensors) = SensorCount(devices)
    /\ \A d \in 1..Len(devices) :
          \A k \in 1..Len(devices[d].sensor_companies) :
             LET s == sensors[SensorCount(SubSeq(devices, 1, d - 1)) + k]
             IN /\ s.sensor_company_id = devices[d].sensor_companies[k]
                /\ s.device_id = devices[d].device_id

InventoryFresh(cache, timestamp, t) ==
    /\ cache # NONE
    /\ timestamp # NONE
    /\ t - timestamp[1] < CACHE_DURATION_SEC

C12_InventoryCachedOrRefreshed ==
    last.op = "get_sensors" =>
        IF InventoryFresh(last.cache_before, last.timestamp_before, now)
        THEN /\ last.net = 0
             /\ ~last.raised
             /\ last.ret = last.cache_before[1]
             /\ api.sensors_cache = last.cache_before
             /\ api.cache_timestamp = last.timestamp_before
        ELSE ~Falsy(last.token_before) =>
                /\ last.net = 1
                /\ ~last.raised =>
                      /\ \E devices \in DeviceLists :
                            FlattenedAnswer(last.ret, devices)
                      /\ api.sensors_cache = <<last.ret>>
                      /\ api.cache_timestamp = <<now>>

\* An expired list replaced by a different one.
C12_Witness ==
    /\ last.op = "get_sensors"
    /\ last.cache_before # NONE
    /\ ~InventoryFresh(last.cache_before, last.timestamp_before, now)
    /\ last.net = 1
    /\ ~last.raised
    /\ last.ret # <<>>
    /\ <<last.ret>> # last.cache_before
    /\ api.sensors_cache = <<last.ret>>

(***************************************************************************)
(* C13. When the inventory request is answered with a non-OK status,       *)
(* get_all_rainfall_sensors_with_device_info raises, returns no list (not  *)
(* the expired one either) and leaves the cached list and its timestamp as *)
(* they were.                                                              *)
(***************************************************************************)
C13_InventoryErrorRaisesAndKeepsCache ==
    (last.op = "get_sensors" /\ last.remote = "ERR") =>
        /\ last.raised
        /\ last.err = "remote"
        /\ last.ret = <<>>
        /\ last.net = 1
        /\ api.sensors_cache = last.cache_before
        /\ api.cache_timestamp = last.timestamp_before

\* A failed refresh of an expired, non-empty list.
C13_Witness ==
    /\ last.op = "get_sensors"
    /\ last.remote = "ERR"
    /\ last.cache_before # NONE
    /\ last.cache_before # << <<>> >>
    /\ last.raised

(***************************************************************************)
(* C14. When the readings request is answered with a non-OK status,        *)
(* get_rainfall_data raises and leaves the readings cache as it was; made  *)
(* through fetch_single_sensor_data, the call also leaves the ledger as it *)
(* was and gives (None, success = False) instead of raising.               *)
(***************************************************************************)
C14_ReadingsErrorChangesNothing ==
    (last.op \in {"get_rainfall_data", "fetch_single"} /\ last.remote = "ERR") =>
        /\ api.data_cache = last.cache_before
        /\ api.last_processed_cache = last.ledger_before
        /\ last.ret = NONE
        /\ ~last.success
        /\ last.err = "remote"
        /\ last.raised <=> last.op = "get_rainfall_data"

\* A failed fetch_single_sensor_data for a key that has an expired cache
\* entry and a ledger stamp.
C14_Witness ==
    /\ last.op = "fetch_single"
    /\ last.remote = "ERR"
    /\ CacheHas(last.cache_before, last.key)
    /\ last.key \in DOMAIN last.ledger_before
    /\ CacheHas(api.data_cache, last.key)

(***************************************************************************)
(* C15. A call that stores a result in the readings cache removes at most  *)
(* one other entry, only when the cache is full and the key is not yet in  *)
(* it, and then the entry of the smallest timestamp; a store below the     *)
(* maximum or of a key already present removes nothing.                    *)
(***************************************************************************)
EvictedKeys(before, after) ==
    {before[i].key : i \in {j \in 1..Len(before) : ~CacheHas(after, before[j].key)}}

C15_EvictionOnlyWhenExceeding ==
    (/\ last.op \in {"get_rainfall_data", "fetch_single"}
     /\ last.use_cache
     /\ last.remote = "OK") =>
        LET before == last.cache_before
            evicted == EvictedKeys(before, api.data_cache)
        IN /\ Cardinality(evicted) <= 1
           /\ CacheHas(api.data_cache, last.key)
           /\ (Len(before) < MAX_CACHE_ENTRIES \/ CacheHas(before, last.key)) =>
                 evicted = {}
           /\ evicted # {} =>
                 \A k \in evicted : \A j \in 1..Len(before) :
                    CacheGet(before, k).timestamp <= before[j].timestamp

(***************************************************************************)
(* C16. The readings cache never holds more than MAX_CACHE_ENTRIES         *)
(* entries, in any interleaving of the workers of a batch.                 *)
(***************************************************************************)
C16_CacheBounded ==
    Len(api.data_cache) <= MAX_CACHE_ENTRIES

(***************************************************************************)
(* C17. A call that returns a sensor list or a payload without sending a   *)
(* request returns what a successful request obtained less than            *)
(* CACHE_DURATION_SEC earlier: the last refresh of the list, or the last   *)
(* fetch of the same key.                                                  *)
(***************************************************************************)
ServedFromHistory(value, history, t) ==
    /\ history # <<>>
    /\ value = history[1].data
    /\ t - history[1].t < CACHE_DURATION_SEC

C17_NothingStaleServed ==
    /\ (last.op = "get_sensors" /\ last.net = 0 /\ ~last.raised) =>
          ServedFromHistory(last.ret, last.stored_before, now)
    /\ (/\ last.op \in {"get_rainfall_data", "fetch_single"}
        /\ last.net = 0
        /\ last.ret # NONE) =>
          ServedFromHistory(last.ret, last.stored_before, now)

\* A payload served from the cache 250 s after it was fetched, when the
\* remote would answer differently.
C17_Witness ==
    /\ last.op = "get_rainfall_data"
    /\ last.net = 0
    /\ last.ret # NONE
    /\ last.stored_before # <<>>
    /\ now - last.stored_before[1].t = 250
    /\ \E sid \in SensorIds, w \in Windows :
          /\ CacheKey(sid, w) = last.key
          /\ last.ret # RemoteRecords(sid, w, now)

(***************************************************************************)
(* C18. The ledger only grows, and only by successful fetches: every step  *)
(* keeps every key of the ledger; a stamp is added or changed only by a    *)
(* fetch_single_sensor_data request for that key that returned a payload;  *)
(* a skipped or failed request leaves the ledger as it was.                *)
(***************************************************************************)
LedgerStep ==
    LET before == api.last_processed_cache
        after == api'.last_processed_cache
    IN /\ DOMAIN before \subseteq DOMAIN after
       /\ \A k \in DOMAIN after :
             (k \notin DOMAIN before \/ after[k] # before[k]) =>
                /\ last'.op = "fetch_single"
                /\ last'.key = k
                /\ last'.success
                /\ last'.ret # NONE
                /\ after[k] = now
       /\ (/\ last'.op = "fetch_single"
           /\ budget' # budget
           /\ last'.ret = NONE) => after = before

C18_LedgerGrowsOnlyOnSuccess == [][LedgerStep]_vars

\* A request skipped 50 s after the stamp, which it left alone.
C18_Witness ==
    /\ last.op = "fetch_single"
    /\ last.err = "skipped"
    /\ last.success
    /\ last.key \in DOMAIN api.last_processed_cache
    /\ now - api.last_processed_cache[last.key] = 50
    /\ api.last_processed_cache = last.ledger_before

(***************************************************************************)
(* C19. save_to_supabase returns True and reports as saved count the rows  *)
(* written: all rows of a batch whose bulk insert succeeded and, for a     *)
(* batch whose bulk insert failed, the rows whose own insert succeeded. A  *)
(* single batch of n rows whose bulk insert fails and whose row inserts    *)
(* succeed for all rows but one gives n - 1.                               *)
(***************************************************************************)
RowAttemptsOf(attempts, b, ok) ==
    {a \in 1..Len(attempts) :
        /\ attempts[a].kind = "row"
        /\ attempts[a].ok = ok
        /\ attempts[b].first <= attempts[a].first
        /\ attempts[a].first <= attempts[b].last}

RECURSIVE CountSaved(_, _)
CountSaved(attempts, a) ==
    IF a > Len(attempts) THEN 0
    ELSE (IF attempts[a].kind = "bulk"
          THEN IF attempts[a].ok
               THEN attempts[a].last - attempts[a].first + 1
               ELSE Cardinality(RowAttemptsOf(attempts, a, TRUE))
          ELSE 0) + CountSaved(attempts, a + 1)

C19_SavedCountIsRowsWritten ==
    m.saved # NONE =>
        LET sv == m.saved[1]
            n == Len(m.records[1])
        IN /\ sv.ret
           /\ sv.total_saved = CountSaved(sv.attempts, 1)
           /\ sv.total_saved = Len(dest) - m.dest0
           /\ (/\ n <= SUPABASE_BATCH_SIZE
               /\ ~sv.attempts[1].ok
               /\ Cardinality(RowAttemptsOf(sv.attempts, 1, FALSE)) = 1) =>
                 sv.total_saved = n - 1

\* One batch of two rows: the bulk insert failed, one row insert failed.
C19_Witness ==
    /\ m.saved # NONE
    /\ Len(m.records[1]) = 2
    /\ Len(m.records[1]) <= SUPABASE_BATCH_SIZE
    /\ ~m.saved[1].attempts[1].ok
    /\ Cardinality(RowAttemptsOf(m.saved[1].attempts, 1, FALSE)) = 1
    /\ m.saved[1].total_saved = 1
    /\ Len(dest) = m.dest0 + 1

(***************************************************************************)
(* C20. save_to_supabase returns True when some insert call succeeded and  *)
(* False when the destination is unreachable, that is when every insert    *)
(* call it made, bulk and per-row, failed.                                 *)
(***************************************************************************)
C20_UnreachableDestinationReturnsFalse ==
    m.saved # NONE =>
        LET sv == m.saved[1]
        IN IF \A a \in 1..Len(sv.attempts) : ~sv.attempts[a].ok
           THEN ~sv.ret
           ELSE sv.ret

(***************************************************************************)
(* C21. save_to_supabase cuts a non-empty list into consecutive batches of *)
(* at most SUPABASE_BATCH_SIZE rows and makes one bulk insert per batch,   *)
(* in order; the rows of a batch are inserted one by one, each exactly     *)
(* once and before the next batch, exactly when the batch's bulk insert    *)
(* failed; no failure stops a later row or batch, so every record is       *)
(* submitted. An empty list makes no insert call and returns True.         *)
(***************************************************************************)
BulkAttempts(attempts) == {a \in 1..Len(attempts) : attempts[a].kind = "bulk"}

BatchesInOrder(attempts, n) ==
    /\ Cardinality(BulkAttempts(attempts)) =
          (n + SUPABASE_BATCH_SIZE - 1) \div SUPABASE_BATCH_SIZE
    /\ \A a \in BulkAttempts(attempts) :
          LET k == Cardinality({b \in BulkAttempts(attempts) : b < a})
          IN /\ attempts[a].first = k * SUPABASE_BATCH_SIZE + 1
             /\ attempts[a].last = Min((k + 1) * SUPABASE_BATCH_SIZE, n)
             /\ attempts[a].last - attempts[a].first + 1 <= SUPABASE_BATCH_SIZE
             /\ attempts[a].first <= attempts[a].last

RowsAfterFailedBulk(attempts) ==
    \A b \in BulkAttempts(attempts) :
        LET size == attempts[b].last - attempts[b].first + 1
        IN IF attempts[b].ok
           THEN \A a \in 1..Len(attempts) :
                   attempts[a].kind = "row" =>
                      ~(/\ attempts[b].first <= attempts[a].first
                        /\ attempts[a].first <= attempts[b].last)
           ELSE /\ b + size <= Len(attempts)
                /\ \A j \in 1..size :
                      /\ attempts[b + j].kind = "row"
                      /\ attempts[b + j].first = attempts[b].first + j - 1

EveryRecordSubmitted(attempts, n) ==
    /\ \A i \in 1..n :
          \E a \in 1..Len(attempts) :
             attempts[a].first <= i /\ i <= attempts[a].last
    /\ \A a \in 1..Len(attempts) :
          attempts[a].kind = "row" =>
             /\ attempts[a].first = attempts[a].last
             /\ \A c \in 1..Len(attempts) :
                   (attempts[c].kind = "row" /\ attempts[c].first = attempts[a].first)
                      => c = a
             /\ \E b \in BulkAttempts(attempts) :
                   /\ b < a
                   /\ ~attempts[b].ok
                   /\ attempts[b].first <= attempts[a].first
                   /\ attempts[a].first <= attempts[b].last

C21_BatchesThenRowFallback ==
    /\ m.saved # NONE =>
          LET attempts == m.saved[1].attempts
              n == Len(m.records[1])
          IN /\ n > 0
             /\ BatchesInOrder(attempts, n)
             /\ RowsAfterFailedBulk(attempts)
             /\ EveryRecordSubmitted(attempts, n)
    /\ \A plan \in InsertPlans :
          save_to_supabase(dest, <<>>, plan) =
             [dest |-> dest, ret |-> TRUE, total_saved |-> 0, attempts |-> <<>>]

\* Two batches: the first bulk insert failed and so did its first row; the
\* second row and the second batch were attempted all the same.
C21_Witness ==
    /\ m.saved # NONE
    /\ Len(m.records[1]) > SUPABASE_BATCH_SIZE
    /\ LET attempts == m.saved[1].attempts
       IN /\ Cardinality(BulkAttempts(attempts)) = 2
          /\ ~attempts[1].ok
          /\ attempts[2].kind = "row" /\ ~attempts[2].ok
          /\ attempts[3].kind = "row" /\ attempts[3].ok
          /\ attempts[Len(attempts)].kind = "bulk"
          /\ attempts[Len(attempts)].ok

Unstamped(records) ==
    [i \in 1..Len(records) |->
       [records[i] EXCEPT !.timestamp = 0, !.created_at = 0]]

TransformStep ==
    (m.records = NONE /\ m'.records # NONE) =>
       /\ m'.rainfall_data = m.rainfall_data
       /\ m'.inv = m.inv
       /\ api' = api
       /\ transform_rainfall_data(m'.rainfall_data[1], m'.inv[1], now')
             = m'.records[1]

ReadingsOf(value) ==
    IF value = NONE THEN <<>>
    ELSE IF value.status # "OK" THEN <<>>
    ELSE ConcatAll([r \in 1..Len(value.data) |-> value.data[r].sensor_records])

RECURSIVE ReadingsOfMap(_)
ReadingsOfMap(rainfall_data) ==
    IF rainfall_data = <<>> THEN <<>>
    ELSE [k \in 1..Len(ReadingsOf(rainfall_data[1].value)) |->
             [sensor_id |-> rainfall_data[1].key,
              reading |-> ReadingsOf(rainfall_data[1].value)[k]]]
         \o ReadingsOfMap(Tail(rainfall_data))

C23_OneRecordPerReading ==
    m.records # NONE =>
       LET expected == ReadingsOfMap(m.rainfall_data[1])
           records == m.records[1]
       IN /\ Len(records) = Len(expected)
          /\ \A i \in 1..Len(records) :
                /\ records[i].sensor_company_id = expected[i].sensor_id
                /\ records[i].raw_data = expected[i].reading
                /\ records[i].datetime = expected[i].reading.datetime
                /\ (\A j \in 1..Len(m.inv[1]) :
                       m.inv[1][j].sensor_company_id # expected[i].sensor_id)
                   => /\ records[i].device_id = NULL
                      /\ records[i].device_name = NULL
                      /\ records[i].gps_location_lat = <<>>
                      /\ records[i].gps_location_lng = <<>>

\* A map with a None entry, a non-OK entry and an OK entry of two readings
\* whose sensor the list does not describe: two records came out.
C23_Witness ==
    /\ m.records # NONE
    /\ Len(m.rainfall_data[1]) = 3
    /\ \E e \in 1..3 : m.rainfall_data[1][e].value = NONE
    /\ \E e \in 1..3 : /\ m.rainfall_data[1][e].value # NONE
                       /\ m.rainfall_data[1][e].value.status = "ERR"
    /\ Len(m.records[1]) = 2
    /\ m.inv[1] # <<>>
    /\ \A j \in 1..Len(m.inv[1]) :
          m.inv[1][j].sensor_company_id # m.records[1][1].sensor_company_id

(***************************************************************************)
(* C24. End to end: when each of the n sensors of a batch got an answer    *)
(* from the readings endpoint, k of them status OK, the batch result map   *)
(* has n entries of which k are not None, transform_rainfall_data emits as *)
(* many records as the k answers hold readings, and save_to_supabase, with *)
(* no insert call failing, reports that number of rows saved.              *)
(***************************************************************************)
OkTasks == {i \in 1..Len(th) : th[i].remote = "OK"}

RECURSIVE ReadingsAnswered(_)
ReadingsAnswered(i) ==
    IF i = 0 THEN 0
    ELSE ReadingsAnswered(i - 1)
         + (IF th[i].remote = "OK" THEN Len(ReadingsOf(th[i].data)) ELSE 0)

C24_EndToEndCounts ==
    (/\ m.rainfall_data # NONE
     /\ \A i \in 1..Len(th) : th[i].remote # NULL)
    => /\ Len(m.rainfall_data[1]) = Len(th)
       /\ SuccessCount(m.rainfall_data[1]) = Cardinality(OkTasks)
       /\ m.records # NONE => Len(m.records[1]) = ReadingsAnswered(Len(th))
       /\ (/\ m.saved # NONE
           /\ \A a \in 1..Len(m.saved[1].attempts) : m.saved[1].attempts[a].ok)
          => m.saved[1].total_saved = ReadingsAnswered(Len(th))

(***************************************************************************)
(* C25. The summary main prints agrees with the outcomes of the batch: its *)
(* succeeded count is the number of sensors whose task reported success    *)
(* (fetched or skipped by the ledger), its failed count the number whose   *)
(* task reported failure, and the two add up to the number of sensors the  *)
(* batch was given.                                                        *)
(***************************************************************************)
MarkedSuccessful == {i \in 1..Len(th) : th[i].success}

C25_SummaryCountsMatchOutcomes ==
    (m.pc = "done" /\ m.outcome = "summary") =>
       /\ SuccessCount(m.rainfall_data[1]) = Cardinality(MarkedSuccessful)
       /\ TotalSensors(m.rainfall_data[1]) - SuccessCount(m.rainfall_data[1])
             = Len(th) - Cardinality(MarkedSuccessful)
       /\ TotalSensors(m.rainfall_data[1]) = Len(fa.sensors)

(***************************************************************************)
(* C26. Two workers of one batch that process the same (sensor, window)    *)
(* key issue at most one network call for that key between them, in every  *)
(* interleaving.                                                           *)
(***************************************************************************)
C26_OneRequestPerKeyPerBatch ==
    \A i, j \in 1..Len(th) :
       (i # j /\ th[i].key = th[j].key) => th[i].net + th[j].net <= 1

(***************************************************************************)
(* C27. When a task of the batch obtained a payload, the map the batch     *)
(* returns holds a payload under that task's sensor id, whatever the order  *)
(* in which the tasks complete.                                            *)
(***************************************************************************)
C27_ObtainedPayloadIsReturned ==
    fa.pc = "returned" =>
       \A i \in 1..Len(th) :
          th[i].ret # NONE =>
             \E e \in 1..Len(fa.all_data) :
                /\ fa.all_data[e].key = th[i].sid
                /\ fa.all_data[e].value # NONE

(***************************************************************************)
(* C28. The bookkeeping of the readings cache never turns a fetch that the *)
(* remote answered with status OK into a failure: in a batch of workers    *)
(* with distinct keys, every finished worker whose request was answered OK *)
(* reports its payload with success = True, and the removal of the oldest  *)
(* entry never fails.                                                      *)
(***************************************************************************)
C28_EvictionNeverFailsAFetch ==
    (\A i, j \in 1..Len(th) : th[i].key = th[j].key => i = j)
    => \A i \in 1..Len(th) :
          /\ th[i].err # "KeyError"
          /\ (th[i].pc = "done" /\ th[i].remote = "OK")
             => (th[i].success /\ th[i].ret # NONE)

(***************************************************************************)
(* C29. Within one run of main the inventory is fetched from the network   *)
(* once: the read that fetch_all_rainfall_data_parallel makes sends no     *)
(* request, the list it dispatches is the list main obtained and hands to  *)
(* transform_rainfall_data, and so every key of the batch result map has a *)
(* descriptor in that list.                                                *)
(***************************************************************************)
C29_OneInventoryPerRun ==
    /\ fa.pc # "idle" => fa.inv_net = 0
    /\ fa.pc \in {"running", "returned"} => fa.sensors = m.inv[1]
    /\ m.rainfall_data # NONE =>
          \A e \in 1..Len(m.rainfall_data[1]) :
             \E j \in 1..Len(m.inv[1]) :
                m.inv[1][j].sensor_company_id = m.rainfall_data[1][e].key

(***************************************************************************)
(* C30. fetch_all_rainfall_data_parallel whose inventory read gives an     *)
(* empty list returns an empty map, without raising and without fetching   *)
(* any readings, in CI mode and outside it: a batch raises only the error  *)
(* of its inventory read.                                                  *)
(***************************************************************************)
C30_EmptyInventoryReturnsEmptyMap ==
    /\ fa.pc = "raised" => fa.err \in {"not_authenticated", "remote"}
    /\ (fa.pc = "returned" /\ fa.sensors = <<>>) =>
          (fa.all_data = <<>> /\ th = <<>>)

====
